---- MODULE Spec2Model ----
(***************************************************************************)
(* IoT GPT (src/app.py): the POST branch of the home() handler, the        *)
(* progression update update_xp_and_streak() over the SQLite database      *)
(* iotgpt.db, the domain classifier detect_domains() and the Wokwi scene   *)
(* generator generate_wokwi_diagram().                                     *)
(*                                                                         *)
(* Strings the code matches by substring are sequences of one-character    *)
(* strings, so that lower(), "x in t" and startswith are computed.         *)
(*                                                                         *)
(* Spec        requests handled one at a time, every document              *)
(* SpecOverlap requests of the same user served at the same time           *)
(* SpecScene   generate_wokwi_diagram alone, over all short lists          *)
(*                                                                         *)
(* Left out: login, signup and the session; the SELECTs of home() lines    *)
(* 311-317, which feed only the rendered page; the text json.dumps makes   *)
(* of the diagram. src/db_helper.py is imported by no code of src/app.py.  *)
(*                                                                         *)
(* SQLite (rollback journal, Python's sqlite3 defaults): a SELECT outside  *)
(* a transaction reads the committed rows; the first INSERT or UPDATE of a *)
(* connection opens its transaction and takes the one write lock, waiting  *)
(* up to the busy timeout while another connection holds it; commit stores *)
(* the transaction's rows at once and frees the lock.                      *)
(***************************************************************************)
EXTENDS Integers, Sequences, FiniteSets, TLC

(***************************************************************************)
(* Bounds of the model.                                                    *)
(***************************************************************************)
\* Requests (POST /) started in one behaviour.
MaxRequests == 3
\* Requests that start while another is in flight, in SpecOverlap.
MaxOverlap == 1
\* The last calendar day, counted from day 0.
MaxDay == 2
\* Longest component list handed to the scene generator in SpecScene.
MaxComponents == 5

(***************************************************************************)
(* Text helpers: str.lower() and the substring test "sub in s".            *)
(***************************************************************************)
UpperCase == <<"A","B","C","D","E","F","G","H","I","J","K","L","M","N","O","P","Q","R","S","T","U","V","W","X","Y","Z">>
LowerCase == <<"a","b","c","d","e","f","g","h","i","j","k","l","m","n","o","p","q","r","s","t","u","v","w","x","y","z">>

LowerChar(ch) ==
    IF \E i \in 1..Len(UpperCase) : UpperCase[i] = ch
    THEN LowerCase[CHOOSE i \in 1..Len(UpperCase) : UpperCase[i] = ch]
    ELSE ch

Lower(s) == [i \in 1..Len(s) |-> LowerChar(s[i])]

Contains(s, sub) ==
    \E i \in 1..(Len(s) - Len(sub) + 1) : SubSeq(s, i, i + Len(sub) - 1) = sub

ContainsAny(s, subs) == \E sub \in subs : Contains(s, sub)

(***************************************************************************)
(* Component and microcontroller names the model service can return.       *)
(***************************************************************************)
N_DHT11     == <<"D","H","T","1","1">>
N_Relay     == <<"R","e","l","a","y">>
N_ESP32Wifi == <<"E","S","P","3","2"," ","W","i","f","i">>
N_OLED      == <<"O","L","E","D"," ","D","i","s","p","l","a","y">>
N_WiFiMod   == <<"W","i","F","i"," ","m","o","d","u","l","e">>
N_Servo     == <<"S","e","r","v","o"," ","m","o","t","o","r">>
N_LCD       == <<"L","C","D","1","6","0","2">>
N_Resistor  == <<"R","e","s","i","s","t","o","r">>

M_ESP32   == <<"E","S","P","3","2">>
M_Uno     == <<"A","r","d","u","i","n","o"," ","U","n","o">>
M_NodeMCU == <<"N","o","d","e","M","C","U"," ","E","S","P","8","2","6","6">>

(***************************************************************************)
(* detect_domains (src/app.py:196-208)                                     *)
(***************************************************************************)
Domains == {"sensor", "display", "cloud", "actuator"}

SensorKeys   == { <<"s","e","n","s","o","r">>, <<"d","h","t">>, <<"m","q">>,
                  <<"u","l","t","r","a","s","o","n","i","c">>, <<"i","r">> }
DisplayKeys  == { <<"l","c","d">>, <<"o","l","e","d">>, <<"d","i","s","p","l","a","y">> }
CloudKeys    == { <<"w","i","f","i">>, <<"c","l","o","u","d">>, <<"m","q","t","t">>,
                  <<"t","h","i","n","g","s","p","e","a","k">>, <<"e","s","p">> }
ActuatorKeys == { <<"r","e","l","a","y">>, <<"m","o","t","o","r">>, <<"b","u","z","z","e","r">>,
                  <<"p","u","m","p">>, <<"s","e","r","v","o">> }

\* The tags one component adds (the body of the for loop).
ComponentDomains(c) ==
    LET t == Lower(c) IN
    (IF ContainsAny(t, SensorKeys)   THEN {"sensor"}   ELSE {}) \cup
    (IF ContainsAny(t, DisplayKeys)  THEN {"display"}  ELSE {}) \cup
    (IF ContainsAny(t, CloudKeys)    THEN {"cloud"}    ELSE {}) \cup
    (IF ContainsAny(t, ActuatorKeys) THEN {"actuator"} ELSE {})

RECURSIVE DetectLoop(_, _, _)
DetectLoop(components, i, domains) ==
    IF i > Len(components) THEN domains
    ELSE DetectLoop(components, i + 1, domains \cup ComponentDomains(components[i]))

\* list(domains): a list without duplicates in no defined order, kept as the set.
detect_domains(components) == DetectLoop(components, 1, {})

(***************************************************************************)
(* component_to_wokwi_part (src/app.py:107-129); "none" is Python's None.  *)
(***************************************************************************)
component_to_wokwi_part(name) ==
    LET n == Lower(name) IN
    IF Contains(n, <<"d","h","t">>) THEN "wokwi-dht11"
    ELSE IF Contains(n, <<"u","l","t","r","a","s","o","n","i","c">>)
            \/ Contains(n, <<"h","c","-","s","r","0","4">>) THEN "wokwi-hc-sr04"
    ELSE IF Contains(n, <<"l","c","d">>) THEN "wokwi-lcd1602"
    ELSE IF Contains(n, <<"o","l","e","d">>) THEN "wokwi-ssd1306"
    ELSE IF Contains(n, <<"r","e","l","a","y">>) THEN "wokwi-relay"
    ELSE IF Contains(n, <<"s","e","r","v","o">>) THEN "wokwi-servo"
    ELSE IF Contains(n, <<"l","e","d">>) THEN "wokwi-led"
    ELSE IF Contains(n, <<"b","u","z","z","e","r">>) THEN "wokwi-buzzer"
    ELSE IF Contains(n, <<"g","a","s">>) \/ Contains(n, <<"m","q">>) THEN "wokwi-mq2"
    ELSE "none"

(***************************************************************************)
(* generate_wokwi_diagram (src/app.py:134-177)                             *)
(***************************************************************************)
\* x = -180 and y = 140: the first grid slot.
FirstLeft == -180
FirstTop == 140
\* x += 120, y += 120: the grid pitch.
GridStep == 120
\* if x > 180: the right edge of a row.
MaxLeft == 180

BoardType(mcu) ==
    IF Contains(Lower(mcu), <<"e","s","p","3","2">>) THEN "wokwi-esp32-devkit-v1"
    ELSE IF Contains(Lower(mcu), <<"e","s","p","8","2","6","6">>) THEN "wokwi-esp8266"
    ELSE "wokwi-arduino-uno"

BoardPart(mcu) == [id |-> <<"mcu">>, type |-> BoardType(mcu), top |-> 0, left |-> 0]

\* A variant that wraps on reaching the right edge (x >= 180).
NextSlot_AtEdge(x, y) ==
    IF x + GridStep >= MaxLeft THEN <<FirstLeft, y + GridStep>> ELSE <<x + GridStep, y>>

\* <<x, y>> after "x += 120; if x > 180: x = -180; y += 120".
NextSlot(x, y) ==
    IF x + GridStep > MaxLeft THEN <<FirstLeft, y + GridStep>> ELSE <<x + GridStep, y>>

RECURSIVE PlaceLoop(_, _, _, _, _, _)
PlaceLoop(components, i, parts, x, y, idx) ==
    IF i > Len(components) THEN parts
    ELSE LET part == component_to_wokwi_part(components[i]) IN
         IF part # "none"
         THEN PlaceLoop(components, i + 1,
                        Append(parts, [id |-> <<"p", idx>>, type |-> part,
                                       top |-> y, left |-> x]),
                        NextSlot(x, y)[1], NextSlot(x, y)[2], idx + 1)
         ELSE PlaceLoop(components, i + 1, parts, x, y, idx)

\* No diagram yet (wokwi_json = None).
NoDiagram == [version |-> 0, author |-> "", editor |-> "", parts |-> <<>>,
              connections |-> <<>>]

\* The diagram before json.dumps; the serialisation to text is not modelled.
generate_wokwi_diagram(mcu, components) ==
    [version |-> 1, author |-> "IoT GPT", editor |-> "wokwi",
     parts |-> PlaceLoop(components, 1, <<BoardPart(mcu)>>, FirstLeft, FirstTop, 0),
     connections |-> <<>>]

\* get_wokwi_link (src/app.py:182-191)
get_wokwi_link(mcu) ==
    IF Contains(Lower(mcu), <<"e","s","p","3","2">>) THEN "https://wokwi.com/projects/new/esp32"
    ELSE IF Contains(Lower(mcu), <<"e","s","p","8","2","6","6">>) THEN "https://wokwi.com/projects/new/esp8266"
    ELSE "https://wokwi.com/projects/new/arduino-uno"


(***************************************************************************)
(* The model service's answer and get_ai_design (src/app.py:66-102).       *)
(* A returned text is a sequence of tokens: a ``` fence, a language tag,   *)
(* a JSON object, or text that is not JSON.                                *)
(***************************************************************************)
Fields == {"introduction", "microcontroller", "components", "pin_config",
           "algorithm", "flowchart", "arduino_code"}

\* The designs the service returns in this model: microcontroller and components.
Designs ==
    { [microcontroller |-> M_ESP32,   components |-> <<N_DHT11, N_Relay, N_ESP32Wifi>>],
      [microcontroller |-> M_Uno,     components |-> <<N_OLED, N_WiFiMod, N_Servo>>],
      [microcontroller |-> M_NodeMCU, components |-> <<N_Resistor>>] }

\* A JSON object: the keys it has, and the values the handler reads.
Documents ==
    { [keys |-> Fields \ miss, microcontroller |-> d.microcontroller,
       components |-> d.components] :
      d \in Designs, miss \in {{}} \cup {{f} : f \in Fields} }

NoData == [keys |-> {}, microcontroller |-> <<>>, components |-> <<>>]

Fence    == [kind |-> "fence", doc |-> NoData]
LangTag  == [kind |-> "lang",  doc |-> NoData]
Junk     == [kind |-> "junk",  doc |-> NoData]
Json(d)  == [kind |-> "json",  doc |-> d]

\* What client.chat.completions.create does: it raises, or returns a text.
ResponsesWith(docs) ==
    { [raises |-> TRUE, text |-> <<>>] } \cup
    { [raises |-> FALSE, text |-> <<Junk>>] } \cup
    { [raises |-> FALSE, text |-> t] :
      t \in UNION { { <<Json(d)>>, <<Fence, Json(d), Fence>>,
                      <<Fence, LangTag, Json(d), Fence>> } : d \in docs } }

Responses == ResponsesWith(Documents)

\* The answers whose document has every field.
CompleteResponses == ResponsesWith({d \in Documents : d.keys = Fields})

\* text.split("```")[1] of a text that starts with a fence: what lies between
\* the first fence and the next one (or the end).
RECURSIVE UpToFence(_)
UpToFence(text) ==
    IF text = <<>> \/ Head(text).kind = "fence" THEN <<>>
    ELSE <<Head(text)>> \o UpToFence(Tail(text))

StripFence(text) ==
    IF text # <<>> /\ Head(text).kind = "fence" THEN UpToFence(Tail(text)) ELSE text

\* json.loads succeeds on exactly one JSON value.
JsonParses(text) == Len(text) = 1 /\ text[1].kind = "json"

\* get_ai_design: [ok, data]; ok = FALSE when the call or json.loads raises.
get_ai_design(resp) ==
    IF resp.raises THEN [ok |-> FALSE, data |-> NoData]
    ELSE LET text == StripFence(resp.text) IN
         IF JsonParses(text) THEN [ok |-> TRUE, data |-> text[1].doc]
         ELSE [ok |-> FALSE, data |-> NoData]

(***************************************************************************)
(* State.                                                                  *)
(***************************************************************************)
\* Request handlers that can run at once (Flask serves requests in threads),
\* all for the one logged-in user.
Workers == {1, 2}

\* last_visit TEXT is NULL until the first scored interaction.
NoDate == -1

VARIABLES
    users,         \* the user's row of table users: xp, streak, last_visit
    domains_used,  \* table domains_used: the number of rows per domain (no UNIQUE)
    chats,         \* table chats: the number of the user's rows
    writer,        \* the connection holding SQLite's write lock, 0 for none
    clock,         \* the latest date date.today() returned, as a day number
    req,           \* per worker: the locals of home() and update_xp_and_streak()
    started,       \* history: the number of POST requests started
    grants,        \* history: per domain, the committed updates that awarded 30 for it
    sumGained,     \* history: the sum of gained_xp over the committed updates
    overlaps,      \* history: the requests started while another was in flight
    sceneInput,    \* SpecScene: the arguments of generate_wokwi_diagram
    sceneOutput    \* SpecScene: its result, NoDiagram before the call

vars == <<users, domains_used, chats, writer, clock, req, started, grants,
          sumGained, overlaps, sceneInput, sceneOutput>>

dbVars == <<users, domains_used, chats>>
histVars == <<started, grants, sumGained, overlaps>>
sceneVars == <<sceneInput, sceneOutput>>

NoUpdate == [set |-> FALSE, xp |-> 0, streak |-> 0, last_visit |-> NoDate]

\* The locals of a handler that is not running.
Idle ==
    [pc |-> "idle", data |-> NoData, domains |-> {}, todo |-> {}, d |-> "",
     xp |-> 0, streak |-> 0, last_visit |-> NoDate, today |-> NoDate,
     gained_xp |-> 0, firsts |-> {}, inserted |-> {}, update |-> NoUpdate,
     scored |-> FALSE,
     sim_link |-> "", wokwi_json |-> NoDiagram]

\* init_db and signup (src/app.py:27-59, 266): a new user, no domain rows.
Init ==
    /\ users = [xp |-> 0, streak |-> 0, last_visit |-> NoDate]
    /\ domains_used = [d \in Domains |-> 0]
    /\ chats = 0
    /\ writer = 0
    /\ clock = 0
    /\ req = [w \in Workers |-> Idle]
    /\ started = 0
    /\ grants = [d \in Domains |-> 0]
    /\ sumGained = 0
    /\ overlaps = 0
    /\ sceneInput = [mcu |-> <<>>, components |-> <<>>]
    /\ sceneOutput = NoDiagram


(***************************************************************************)
(* update_xp_and_streak's arithmetic (src/app.py:231-245).                 *)
(***************************************************************************)
UsedDomainXp == 5
NewDomainXp == 30
CloudBonus == 30
DisplayBonus == 20
ActuatorBonus == 20

\* "SELECT 1 FROM domains_used WHERE user_id=? AND domain=?" then fetchone():
\* a row is found when any committed row exists, or one this connection's open
\* transaction has inserted.
\* A variant that takes only a single stored row for a used domain.
DomainUsed_ExactlyOne(w, d) == domains_used[d] = 1 \/ d \in req[w].inserted
DomainUsed(w, d) == domains_used[d] > 0 \/ d \in req[w].inserted

\* gained_xp += 5 / gained_xp += 30
\* A variant that awards the first-time amount every time.
DomainAward_Flat(used) == NewDomainXp
DomainAward(used) == IF used THEN UsedDomainXp ELSE NewDomainXp

\* The three "if ... in domains: gained_xp += ..." lines.
\* A variant with a flat bonus for sensor too.
FlatBonus_Sensor(domains) ==
    (IF "cloud" \in domains THEN CloudBonus ELSE 0)
    + (IF "display" \in domains THEN DisplayBonus ELSE 0)
    + (IF "actuator" \in domains THEN ActuatorBonus ELSE 0)
    + (IF "sensor" \in domains THEN ActuatorBonus ELSE 0)
FlatBonus(domains) ==
    (IF "cloud" \in domains THEN CloudBonus ELSE 0)
    + (IF "display" \in domains THEN DisplayBonus ELSE 0)
    + (IF "actuator" \in domains THEN ActuatorBonus ELSE 0)

\* xp += gained_xp
\* A variant that stores the gain in place of the sum.
AddXp_Overwrite(xp, gained_xp) == gained_xp
AddXp(xp, gained_xp) == xp + gained_xp

(***************************************************************************)
(* home(), POST (src/app.py:301-358): one action per statement that reads  *)
(* or writes shared state (the database, its write lock, the clock); the   *)
(* statements between two of them, which touch only locals, belong to the  *)
(* action before them.                                                     *)
(***************************************************************************)
SetReq(w, r) == req' = [req EXCEPT ![w] = r]

\* Lines 303-324: the request arrives, get_ai_design returns or raises, and
\* detect_domains(data["components"]) runs or raises KeyError. The handler
\* threads are interchangeable: the free one with the lowest number serves it.
PostFrom(w, responses) ==
    /\ req[w].pc = "idle"
    /\ \A v \in Workers : v < w => req[v].pc # "idle"
    /\ started < MaxRequests
    /\ \E resp \in responses :
         LET r == get_ai_design(resp) IN
         IF r.ok /\ "components" \in r.data.keys
         THEN SetReq(w, [req[w] EXCEPT !.pc = "select_user", !.data = r.data,
                                       !.domains = detect_domains(r.data.components)])
         ELSE SetReq(w, [req[w] EXCEPT !.pc = "render", !.data = r.data])
    /\ started' = started + 1
    /\ overlaps' = overlaps + IF \E v \in Workers \ {w} : req[v].pc # "idle" THEN 1 ELSE 0
    /\ UNCHANGED <<dbVars, writer, clock, grants, sumGained, sceneVars>>

\* Lines 214-218: SELECT xp, streak, last_visit.
SelectUser(w) ==
    /\ req[w].pc = "select_user"
    /\ SetReq(w, [req[w] EXCEPT !.pc = "today", !.xp = users.xp,
                                !.streak = users.streak,
                                !.last_visit = users.last_visit])
    /\ UNCHANGED <<dbVars, writer, clock, histVars, sceneVars>>

\* date.today(): a date not earlier than any date read before. The variable
\* clock is the latest date read; the days that pass between two reads show in
\* the next read.
Dates == clock..MaxDay

\* Lines 220-223, 228-231: today = date.today(); streak = 1 without a last visit.
ReadToday(w) ==
    /\ req[w].pc = "today"
    /\ \E now \in Dates :
         /\ clock' = now
         /\ IF req[w].last_visit # NoDate
            THEN SetReq(w, [req[w] EXCEPT !.pc = "gap_is_1", !.today = now])
            ELSE SetReq(w, [req[w] EXCEPT !.pc = "loop", !.today = now, !.streak = 1,
                                          !.todo = req[w].domains])
    /\ UNCHANGED <<dbVars, writer, histVars, sceneVars>>

\* Lines 224-225: if (date.today() - last).days == 1: streak += 1
GapIsOne(w) ==
    /\ req[w].pc = "gap_is_1"
    /\ \E now \in Dates :
         /\ clock' = now
         /\ IF now - req[w].last_visit = 1
            THEN SetReq(w, [req[w] EXCEPT !.pc = "loop", !.streak = @ + 1,
                                          !.todo = req[w].domains])
            ELSE SetReq(w, [req[w] EXCEPT !.pc = "gap_over_1"])
    /\ UNCHANGED <<dbVars, writer, histVars, sceneVars>>

\* Lines 226-227: elif (date.today() - last).days > 1: streak = 1
GapOverOne(w) ==
    /\ req[w].pc = "gap_over_1"
    /\ \E now \in Dates :
         /\ clock' = now
         /\ SetReq(w, [req[w] EXCEPT
                         !.pc = "loop",
                         !.streak = IF now - req[w].last_visit > 1 THEN 1 ELSE @,
                         !.todo = req[w].domains])
    /\ UNCHANGED <<dbVars, writer, histVars, sceneVars>>

\* Lines 233-238: the next domain of the list, its SELECT and the award. The
\* loop variable d is kept only while the INSERT that reads it is still to run.
CheckDomain(w) ==
    /\ req[w].pc = "loop"
    /\ \E d \in req[w].todo :
         SetReq(w, [req[w] EXCEPT
                      !.pc = IF DomainUsed(w, d) THEN "loop" ELSE "insert",
                      !.todo = @ \ {d},
                      !.d = IF DomainUsed(w, d) THEN "" ELSE d,
                      !.gained_xp = @ + DomainAward(DomainUsed(w, d)),
                      !.firsts = IF DomainAward(DomainUsed(w, d)) = NewDomainXp
                                 THEN @ \cup {d} ELSE @])
    /\ UNCHANGED <<dbVars, writer, clock, histVars, sceneVars>>

\* A variant whose INSERT is committed at once, outside the transaction.
InsertDomain_Autocommit(w) ==
    /\ req[w].pc = "insert"
    /\ writer \in {0, w}
    /\ domains_used' = [domains_used EXCEPT ![req[w].d] = @ + 1]
    /\ SetReq(w, [req[w] EXCEPT !.pc = "loop", !.d = ""])
    /\ UNCHANGED <<users, chats, writer, clock, histVars, sceneVars>>

\* Line 239: INSERT INTO domains_used. The first write of a connection opens its
\* transaction and takes the write lock; it waits while another holds it.
InsertDomain(w) ==
    /\ req[w].pc = "insert"
    /\ writer \in {0, w}
    /\ writer' = w
    /\ SetReq(w, [req[w] EXCEPT !.pc = "loop", !.inserted = @ \cup {req[w].d},
                                !.d = ""])
    /\ UNCHANGED <<dbVars, clock, histVars, sceneVars>>

\* Lines 241-248: the loop is over; the flat bonuses, xp += gained_xp and
\* UPDATE users SET xp, streak, last_visit, in the connection's transaction.
UpdateUser(w) ==
    /\ req[w].pc = "loop"
    /\ req[w].todo = {}
    /\ writer \in {0, w}
    /\ writer' = w
    /\ LET g == req[w].gained_xp + FlatBonus(req[w].domains)
           x == AddXp(req[w].xp, g) IN
       SetReq(w, [req[w] EXCEPT !.pc = "commit", !.gained_xp = g, !.xp = x,
                    !.update = [set |-> TRUE, xp |-> x, streak |-> req[w].streak,
                                last_visit |-> req[w].today]])
    /\ UNCHANGED <<dbVars, clock, histVars, sceneVars>>

\* The rows a commit of w's transaction stores.
CommittedDomains(w) ==
    [d \in Domains |-> domains_used[d] + IF d \in req[w].inserted THEN 1 ELSE 0]

CommittedUser(w) ==
    IF req[w].update.set
    THEN [xp |-> req[w].update.xp, streak |-> req[w].update.streak,
          last_visit |-> req[w].update.last_visit]
    ELSE users

\* What home() keeps when update_xp_and_streak returns xp, streak, gained_xp:
\* the function's other locals and its connection are gone.
Returned(w) ==
    [Idle EXCEPT !.data = req[w].data, !.domains = req[w].domains,
                 !.xp = req[w].xp, !.streak = req[w].streak,
                 !.gained_xp = req[w].gained_xp, !.scored = TRUE]

\* Lines 250-253 and 327-331: conn.commit(), conn.close(), return; then
\* get_wokwi_link and generate_wokwi_diagram, where data["microcontroller"]
\* raises KeyError when the key is missing.
Commit(w) ==
    /\ req[w].pc = "commit"
    /\ writer = w
    /\ domains_used' = CommittedDomains(w)
    /\ users' = CommittedUser(w)
    /\ writer' = 0
    /\ grants' = [d \in Domains |-> grants[d] + IF d \in req[w].firsts THEN 1 ELSE 0]
    /\ sumGained' = sumGained + req[w].gained_xp
    /\ IF "microcontroller" \in req[w].data.keys
       THEN SetReq(w, [Returned(w) EXCEPT
                         !.pc = "chat_insert",
                         !.sim_link = get_wokwi_link(req[w].data.microcontroller),
                         !.wokwi_json = generate_wokwi_diagram(req[w].data.microcontroller,
                                                               req[w].data.components)])
       ELSE SetReq(w, [Returned(w) EXCEPT !.pc = "render"])
    /\ UNCHANGED <<chats, clock, started, overlaps, sceneVars>>

\* Lines 333-335: INSERT INTO chats, on a new connection.
InsertChat(w) ==
    /\ req[w].pc = "chat_insert"
    /\ writer \in {0, w}
    /\ writer' = w
    /\ SetReq(w, [req[w] EXCEPT !.pc = "chat_commit"])
    /\ UNCHANGED <<dbVars, clock, histVars, sceneVars>>

\* Lines 336-337: conn.commit(), conn.close().
CommitChat(w) ==
    /\ req[w].pc = "chat_commit"
    /\ writer = w
    /\ chats' = chats + 1
    /\ writer' = 0
    /\ SetReq(w, [req[w] EXCEPT !.pc = "render"])
    /\ UNCHANGED <<users, domains_used, clock, histVars, sceneVars>>

\* A statement of the try block raises sqlite3.Error (the write lock was not
\* granted within the busy timeout, an I/O error): control goes to "except"
\* (line 339); the connection is dropped uncommitted, which rolls its
\* transaction back and frees the lock, and the locals of the function that
\* raised are gone.
DbStatementAt(w) ==
    req[w].pc \in {"select_user", "loop", "insert", "commit", "chat_insert", "chat_commit"}

DbError(w) ==
    /\ DbStatementAt(w)
    /\ writer' = IF writer = w THEN 0 ELSE writer
    /\ SetReq(w, [Idle EXCEPT !.pc = "render", !.data = req[w].data,
                             !.domains = req[w].domains, !.scored = req[w].scored,
                             !.gained_xp = IF req[w].scored THEN req[w].gained_xp ELSE 0,
                             !.xp = IF req[w].scored THEN req[w].xp ELSE 0,
                             !.streak = IF req[w].scored THEN req[w].streak ELSE 0,
                             !.sim_link = req[w].sim_link,
                             !.wokwi_json = req[w].wokwi_json])
    /\ UNCHANGED <<dbVars, clock, histVars, sceneVars>>

\* Lines 339-358: the page is rendered (or data[...] raises KeyError and the
\* response is an error page); the handler's locals are gone.
Render(w) ==
    /\ req[w].pc = "render"
    /\ SetReq(w, Idle)
    /\ UNCHANGED <<dbVars, writer, clock, histVars, sceneVars>>

Step(w) ==
    \/ SelectUser(w) \/ ReadToday(w) \/ GapIsOne(w) \/ GapOverOne(w)
    \/ CheckDomain(w) \/ InsertDomain(w) \/ UpdateUser(w)
    \/ Commit(w) \/ InsertChat(w) \/ CommitChat(w)
    \/ DbError(w) \/ Render(w)

\* Requests handled one at a time: a request starts when none is in flight.
Post(w) ==
    /\ \A v \in Workers : req[v].pc = "idle"
    /\ PostFrom(w, Responses)

Next == \E w \in Workers : Post(w) \/ Step(w)

Spec == Init /\ [][Next]_vars

\* Requests of the one user served at the same time (Flask's threaded server),
\* each with a complete document or a failed design.
PostOverlap(w) ==
    /\ (\E v \in Workers : req[v].pc # "idle") => overlaps < MaxOverlap
    /\ PostFrom(w, CompleteResponses)

NextOverlap == \E w \in Workers : PostOverlap(w) \/ Step(w)

SpecOverlap == Init /\ [][NextOverlap]_vars


(***************************************************************************)
(* SpecScene: generate_wokwi_diagram applied to every component list of up *)
(* to MaxComponents names and every microcontroller name below.            *)
(***************************************************************************)
SceneMcus == {M_ESP32, M_Uno, M_NodeMCU}
SceneNames == {N_DHT11, N_Relay, N_ESP32Wifi, N_OLED}
SceneLists == UNION { [1..n -> SceneNames] : n \in 0..MaxComponents }

InitScene ==
    /\ users = [xp |-> 0, streak |-> 0, last_visit |-> NoDate]
    /\ domains_used = [d \in Domains |-> 0]
    /\ chats = 0
    /\ writer = 0
    /\ clock = 0
    /\ req = [w \in Workers |-> Idle]
    /\ started = 0
    /\ grants = [d \in Domains |-> 0]
    /\ sumGained = 0
    /\ overlaps = 0
    /\ sceneInput \in [mcu : SceneMcus, components : SceneLists]
    /\ sceneOutput = NoDiagram

GenerateScene ==
    /\ sceneOutput = NoDiagram
    /\ sceneOutput' = generate_wokwi_diagram(sceneInput.mcu, sceneInput.components)
    /\ UNCHANGED <<dbVars, writer, clock, req, histVars, sceneInput>>

SpecScene == InitScene /\ [][GenerateScene]_vars


(***************************************************************************)
(* Properties.                                                             *)
(***************************************************************************)
\* The step in which worker w's update_xp_and_streak commits and returns.
Commits(w) == req[w].pc = "commit" /\ req'[w].scored

\* The request of worker w has no usable design: the call raised, the text did
\* not parse, or the document lacks a required field.
DesignFailed(w) == req[w].pc # "idle" /\ req[w].data.keys # Fields

\* C1: while a request whose design generation failed is being handled, the
\* user's stored xp, streak and last_visit and the domain-usage records do not
\* change (requests handled one at a time).
C1_FailedDesignIsNoOp ==
    [][(\E w \in Workers : DesignFailed(w)) => UNCHANGED <<users, domains_used>>]_vars

\* C2: a first-time domain use is counted once: no domain has more than one
\* usage record, and the 30-XP award for it was granted by at most one
\* committed update.
C2_NoDoubleCount ==
    \A d \in Domains : domains_used[d] <= 1 /\ grants[d] <= 1

\* C3: the stored domain-usage records and the stored user row change only in
\* the commit of one invocation, which stores that invocation's inserted records
\* and its user update in the same step; a failure before it stores neither.
C3_CommittedTogether ==
    [][(domains_used' # domains_used \/ users' # users) =>
         \E w \in Workers :
           /\ req[w].pc = "commit"
           /\ req[w].update.set
           /\ users' = [xp |-> req[w].update.xp, streak |-> req[w].update.streak,
                        last_visit |-> req[w].update.last_visit]
           /\ \A d \in Domains :
                domains_used'[d] = domains_used[d] + IF d \in req[w].inserted THEN 1 ELSE 0
      ]_vars

\* An invocation has inserted domain-usage records and written its user update,
\* and has not committed: neither is stored, and a failure now stores neither.
C3_Witness ==
    \E w \in Workers :
      /\ req[w].pc = "commit"
      /\ req[w].inserted = {"sensor", "actuator", "cloud"}
      /\ req[w].update.set
      /\ req[w].update.xp = 140
      /\ users = [xp |-> 0, streak |-> 0, last_visit |-> NoDate]
      /\ \A d \in Domains : domains_used[d] = 0
      /\ ENABLED DbError(w)

\* C4: the stored xp is never negative and no step lowers it (requests handled
\* one at a time, succeeding or failing).
C4_XpMonotone ==
    [](users.xp >= 0) /\ [][users'.xp >= users.xp]_vars

\* A failed interaction after XP was earned, and a later scored one.
C4_Witness ==
    /\ users.xp > 140
    /\ started = 3
    /\ \E w \in Workers : req[w].pc = "render" /\ ~req[w].scored

\* C5: each committed update sets the streak from the gap in days between the
\* date it stores as last_visit (today) and the last_visit stored before: 1
\* without one, +1 for a gap of 1, 1 for a gap over 1, unchanged for a gap of 0.
C5_StreakFromGap ==
    [][\A w \in Workers : Commits(w) =>
         IF users.last_visit = NoDate
         THEN users'.streak = 1
         ELSE LET gap == users'.last_visit - users.last_visit IN
              /\ gap = 1 => users'.streak = users.streak + 1
              /\ gap > 1 => users'.streak = 1
              /\ gap = 0 => users'.streak = users.streak
      ]_vars

\* The XP one update gains for the detected set, given the records stored before.
ExpectedGain(detected) ==
    (IF "sensor" \in detected THEN (IF domains_used["sensor"] = 0 THEN 30 ELSE 5) ELSE 0)
    + (IF "display" \in detected THEN (IF domains_used["display"] = 0 THEN 30 ELSE 5) + 20 ELSE 0)
    + (IF "cloud" \in detected THEN (IF domains_used["cloud"] = 0 THEN 30 ELSE 5) + 30 ELSE 0)
    + (IF "actuator" \in detected THEN (IF domains_used["actuator"] = 0 THEN 30 ELSE 5) + 20 ELSE 0)

\* C6: a committed update returns the gain 30 per detected domain without a
\* record, 5 per detected domain with one, plus 30 for cloud, 20 for display and
\* 20 for actuator, and stores the previous xp plus that gain; {cloud, display,
\* actuator} gains 160 when all are new and 85 when all are used.
C6_GainFormula ==
    [][\A w \in Workers : Commits(w) =>
         /\ req'[w].gained_xp = ExpectedGain(req[w].domains)
         /\ users'.xp = users.xp + ExpectedGain(req[w].domains)
         /\ req[w].domains = {"cloud", "display", "actuator"} =>
              /\ (\A d \in req[w].domains : domains_used[d] = 0) => req'[w].gained_xp = 160
              /\ (\A d \in req[w].domains : domains_used[d] > 0) => req'[w].gained_xp = 85
      ]_vars

\* {cloud, display, actuator} detected again: 85 gained after the 160.
C6_Witness ==
    \E w \in Workers :
      /\ req[w].scored
      /\ req[w].domains = {"cloud", "display", "actuator"}
      /\ req[w].gained_xp = 85
      /\ users.xp = 245

\* C7: with requests handled one at a time no domain's 30-XP award is granted
\* twice; and a detection of a domain that has a stored record, one or several,
\* awards 5 and inserts no record.
C7_FirstAwardOnce ==
    /\ [](overlaps = 0 => \A d \in Domains : grants[d] <= 1)
    /\ [][\A w \in Workers : \A d \in Domains :
            (req[w].pc = "loop" /\ d \in req[w].todo /\ d \notin req'[w].todo
             /\ domains_used[d] >= 1 /\ req'[w].pc # "render")
            => /\ req'[w].gained_xp = req[w].gained_xp + 5
               /\ req'[w].pc = "loop"
               /\ d \notin req'[w].firsts
        ]_vars

\* A domain recorded twice was detected again and awarded 5.
C7_Witness ==
    \E w \in Workers : \E d \in Domains :
      /\ domains_used[d] = 2
      /\ req[w].pc = "loop"
      /\ d \in req[w].domains \ req[w].todo
      /\ req[w].firsts = {}
      /\ req[w].todo = {}
      /\ req[w].gained_xp = 5 * Cardinality(req[w].domains)
      /\ \A v \in Workers \ {w} : req[v].pc = "idle"

\* The end-to-end user: xp 0, streak 0, no last visit, and the design with
\* components DHT11, Relay, ESP32 Wifi.
EndToEndCommit(w) ==
    /\ Commits(w)
    /\ users = [xp |-> 0, streak |-> 0, last_visit |-> NoDate]
    /\ req[w].data.components = <<N_DHT11, N_Relay, N_ESP32Wifi>>

\* C8 as stated: the classifier yields {sensor, actuator, cloud} and the update
\* gains 110 with streak 1.
C8_Gain110 ==
    [][\A w \in Workers : EndToEndCommit(w) =>
         /\ req[w].domains = {"sensor", "actuator", "cloud"}
         /\ req'[w].gained_xp = 110
         /\ req'[w].streak = 1
      ]_vars

\* C8 amended: the classifier yields {sensor, actuator, cloud} and the update
\* gains 140 (30 for each of the three new domains, 30 for cloud, 20 for
\* actuator) with streak 1.
C8_Gain140 ==
    [][\A w \in Workers : EndToEndCommit(w) =>
         /\ req[w].domains = {"sensor", "actuator", "cloud"}
         /\ req'[w].gained_xp = 140
         /\ req'[w].streak = 1
         /\ users'.xp = 140
         /\ users'.streak = 1
      ]_vars

C8_Witness ==
    \E w \in Workers :
      /\ req[w].scored
      /\ req[w].data.components = <<N_DHT11, N_Relay, N_ESP32Wifi>>
      /\ started = 1
      /\ users.xp = 140
      /\ users.streak = 1

\* Five components that all resolve to a part type have been placed.
FiveResolvable ==
    /\ sceneOutput # NoDiagram
    /\ Len(sceneInput.components) = 5
    /\ \A k \in 1..5 : component_to_wokwi_part(sceneInput.components[k]) # "none"

\* The board and five parts in input order.
BoardAndFiveParts ==
    /\ Len(sceneOutput.parts) = 6
    /\ sceneOutput.parts[1] = [id |-> <<"mcu">>, type |-> BoardType(sceneInput.mcu),
                               top |-> 0, left |-> 0]
    /\ \A k \in 1..5 :
         /\ sceneOutput.parts[k + 1].type = component_to_wokwi_part(sceneInput.components[k])
         /\ sceneOutput.parts[k + 1].id = <<"p", k - 1>>

\* C9 as stated: the board and five parts, the first three at left -180, -60, 60
\* and top 140, and the 4th part wrapped to left -180 with top 260.
C9_FourthWraps ==
    FiveResolvable =>
      /\ BoardAndFiveParts
      /\ \A k \in 1..3 : /\ sceneOutput.parts[k + 1].left = -180 + 120 * (k - 1)
                         /\ sceneOutput.parts[k + 1].top = 140
      /\ sceneOutput.parts[5].left = -180
      /\ sceneOutput.parts[5].top = 260

\* C9 amended: the board and five parts, the first four at left -180, -60, 60,
\* 180 and top 140, and the 5th part wrapped to left -180 with top 260.
C9_FifthWraps ==
    FiveResolvable =>
      /\ BoardAndFiveParts
      /\ \A k \in 1..4 : /\ sceneOutput.parts[k + 1].left = -180 + 120 * (k - 1)
                         /\ sceneOutput.parts[k + 1].top = 140
      /\ sceneOutput.parts[6].left = -180
      /\ sceneOutput.parts[6].top = 260

C9_Witness == FiveResolvable

\* C10: no XP update is lost: the stored xp is the initial xp (0) plus the
\* gains of all committed updates, and no step lowers it.
C10_NoLostUpdate ==
    [](users.xp = sumGained) /\ [][users'.xp >= users.xp]_vars

====
